---- MODULE Spec2Model ----
\* A model of package hnb (src/hnb/hnb.go) and of the conversion handler of
\* src/main.go: the HNB manager with its LatestExchange / updater / Close
\* operations (Spec), and fetch with the parsing helpers it calls, the JSON
\* form of an Exchange and conversionHandler, each run on one response of the
\* remote server (FetchSpec).  Text is modelled as sequences of one-character
\* strings, a payload as the sequence of lines bufio.Scanner yields.
EXTENDS Integers, Sequences, FiniteSets, TLC

\* ------------------------------------------------------------------ bounds

\* Number of concurrent callers of LatestExchange.
NReaders == 2

\* How many times the remote server's content is replaced.
MaxChanges == 2

Readers == 1..NReaders

\* ------------------------------------------------------------------ text

Digits == <<"0", "1", "2", "3", "4", "5", "6", "7", "8", "9">>

IsDigit(c) == \E i \in 1..10 : Digits[i] = c

DigitVal(c) == (CHOOSE i \in 1..10 : Digits[i] = c) - 1

\* unicode.IsSpace for the characters that occur in a line.
IsSpace(c) == c \in {" ", "\t"}

\* Go's s[lo:hi] (0-indexed, hi exclusive); the caller checks the bounds.
Slice(s, lo, hi) == SubSeq(s, lo + 1, hi)

RECURSIVE FieldsFrom(_, _, _, _)
FieldsFrom(line, i, cur, acc) ==
    IF i > Len(line)
    THEN IF cur = <<>> THEN acc ELSE Append(acc, cur)
    ELSE IF IsSpace(line[i])
         THEN FieldsFrom(line, i + 1, <<>>,
                         IF cur = <<>> THEN acc ELSE Append(acc, cur))
         ELSE FieldsFrom(line, i + 1, Append(cur, line[i]), acc)

\* strings.Fields: the maximal runs of non-space characters.
Fields(line) == FieldsFrom(line, 1, <<>>, <<>>)

RECURSIVE DigitsValue(_, _)
DigitsValue(s, acc) ==
    IF s = <<>> THEN acc
    ELSE DigitsValue(Tail(s), acc * 10 + DigitVal(Head(s)))

AllDigits(s) == \A i \in 1..Len(s) : IsDigit(s[i])

\* strconv.Atoi: an optional sign, then one or more decimal digits.
Atoi(s) ==
    LET signed == s # <<>> /\ Head(s) \in {"+", "-"}
        body   == IF signed THEN Tail(s) ELSE s
    IN  IF body = <<>> \/ ~AllDigits(body)
        THEN [ok |-> FALSE, val |-> 0]
        ELSE [ok |-> TRUE,
              val |-> IF signed /\ Head(s) = "-"
                      THEN 0 - DigitsValue(body, 0)
                      ELSE DigitsValue(body, 0)]

\* engFloat: ',' and '.' change places, every other character is kept.
engFloat(in) ==
    [i \in 1..Len(in) |->
        CASE in[i] = "," -> "."
          [] in[i] = "." -> ","
          [] OTHER       -> in[i]]

RECURSIVE Pow10(_)
Pow10(n) == IF n = 0 THEN 1 ELSE 10 * Pow10(n - 1)

\* Index of the first '.' of s, 0 when there is none.
PointAt(s) ==
    IF \E i \in 1..Len(s) : s[i] = "."
    THEN CHOOSE i \in 1..Len(s) : s[i] = "." /\ \A j \in 1..(i - 1) : s[j] # "."
    ELSE 0

RECURSIVE GCD(_, _)
GCD(a, b) == IF b = 0 THEN a ELSE GCD(b, a % b)

\* A number: the quotient num / den in lowest terms, den > 0; inf marks a
\* signed infinity.
Number(num, den) ==
    LET g == GCD(IF num < 0 THEN 0 - num ELSE num, den)
    IN  [inf |-> FALSE, num |-> num \div g, den |-> den \div g]

\* (*big.Float).Parse(value, 10) on sign, digits and one optional point (the
\* characters a line offers).  The result is written as the quotient num/den
\* that the big.Float holds or, when it cannot, rounds (see Exact).
ParseFloat(value) ==
    LET signed == value # <<>> /\ Head(value) \in {"+", "-"}
        body   == IF signed THEN Tail(value) ELSE value
        p      == PointAt(body)
        ip     == IF p = 0 THEN body ELSE SubSeq(body, 1, p - 1)
        fp     == IF p = 0 THEN <<>> ELSE SubSeq(body, p + 1, Len(body))
        mag    == DigitsValue(ip \o fp, 0)
    IN  IF ip \o fp = <<>> \/ ~AllDigits(ip \o fp)
        THEN [ok |-> FALSE, number |-> Number(0, 1)]
        ELSE [ok |-> TRUE,
              number |-> Number(IF signed /\ Head(value) = "-" THEN 0 - mag ELSE mag,
                                Pow10(Len(fp)))]

RECURSIVE IsPowerOfTwo(_)
IsPowerOfTwo(n) == n = 1 \/ (n > 1 /\ n % 2 = 0 /\ IsPowerOfTwo(n \div 2))

\* A big.Float is a binary floating-point number: the one new(big.Float)
\* that Parse and Quo fill has a mantissa of 64 bits.  It holds num/den itself
\* exactly when num/den is a binary fraction (in lowest terms the denominator
\* is a power of two; every numerator here fits the mantissa); otherwise it
\* holds a neighbouring binary fraction, num/den rounded to 64 bits.
Exact(number) ==
    LET mag == IF number.num < 0 THEN 0 - number.num ELSE number.num
    IN  number.inf \/ IsPowerOfTwo(number.den \div GCD(mag, number.den))

\* (*big.Float).Quo(number, divisor) for an integer divisor: x/0 is an
\* infinity for x # 0 and a run-time panic (ErrNaN) for 0/0.
Quo(number, units) ==
    IF units = 0
    THEN IF number.num = 0
         THEN [panic |-> TRUE, number |-> number]
         ELSE [panic |-> FALSE, number |-> [inf |-> TRUE, num |-> number.num, den |-> 1]]
    ELSE [panic |-> FALSE,
          number |-> IF units > 0
                     THEN Number(number.num, number.den * units)
                     ELSE Number(0 - number.num, number.den * (0 - units))]

\* normaliseRate without the division: the quoted value is stored as it is.
normaliseRateUndivided(value, units) ==
    LET parsed == ParseFloat(value)
    IN  IF ~parsed.ok
        THEN [err |-> TRUE, panic |-> FALSE, number |-> parsed.number]
        ELSE [err |-> FALSE, panic |-> FALSE, number |-> parsed.number]

\* normaliseRate: parse, then divide by the unit count when it is not 1.
normaliseRate(value, units) ==
    LET parsed == ParseFloat(value)
    IN  IF ~parsed.ok
        THEN [err |-> TRUE, panic |-> FALSE, number |-> parsed.number]
        ELSE IF units # 1
             THEN [err |-> FALSE, panic |-> Quo(parsed.number, units).panic,
                   number |-> Quo(parsed.number, units).number]
             ELSE [err |-> FALSE, panic |-> FALSE, number |-> parsed.number]

\* ------------------------------------------------------------------ dates

ZeroDate == [year |-> 1, month |-> 1, day |-> 1]

IsLeap(y) == (y % 4 = 0 /\ y % 100 # 0) \/ y % 400 = 0

DaysIn(m, y) ==
    CASE m \in {4, 6, 9, 11} -> 30
      [] m = 2               -> IF IsLeap(y) THEN 29 ELSE 28
      [] OTHER               -> 31

\* time.Parse("02012006", s): two digits of day, two of month, four of year.
ParseDate(s) ==
    IF Len(s) # 8 \/ ~AllDigits(s)
    THEN [ok |-> FALSE, date |-> ZeroDate]
    ELSE LET d == DigitsValue(SubSeq(s, 1, 2), 0)
             m == DigitsValue(SubSeq(s, 3, 4), 0)
             y == DigitsValue(SubSeq(s, 5, 8), 0)
         IN  IF m \in 1..12 /\ d >= 1 /\ d <= DaysIn(m, y)
             THEN [ok |-> TRUE, date |-> [year |-> y, month |-> m, day |-> d]]
             ELSE [ok |-> FALSE, date |-> ZeroDate]

\* ------------------------------------------------------------------ fetch

\* What LatestExchange hands back: the Exchange value and the error.
\* err = "nil" is success; "panic" stands for a run-time fault inside fetch.
Result(date, rates, err) == [Date |-> date, Rates |-> rates, err |-> err]

\* make(map[string]Rate, 0)
NoRates == [c \in {} |-> 0]

\* exchange.Rates[currency] = rate
PutRate(rates, currency, rate) ==
    [c \in DOMAIN rates \cup {currency} |-> IF c = currency THEN rate ELSE rates[c]]

\* The body of the scanner loop for a line that has exactly four fields.
DataLine(parts, date, rates) ==
    IF Len(parts[1]) < 6
    THEN Result(date, rates, "panic")
    ELSE LET currency == Slice(parts[1], 3, 6)
             units    == Atoi(Slice(parts[1], 6, Len(parts[1])))
             buy      == normaliseRate(engFloat(parts[2]), units.val)
             middle   == normaliseRate(engFloat(parts[3]), units.val)
             sell     == normaliseRate(engFloat(parts[4]), units.val)
         IN  IF ~units.ok THEN Result(date, rates, "units")
             ELSE IF buy.err THEN Result(date, rates, "rate")
             ELSE IF buy.panic THEN Result(date, rates, "panic")
             ELSE IF middle.err THEN Result(date, rates, "rate")
             ELSE IF middle.panic THEN Result(date, rates, "panic")
             ELSE IF sell.err THEN Result(date, rates, "rate")
             ELSE IF sell.panic THEN Result(date, rates, "panic")
             ELSE Result(date,
                         PutRate(rates, currency,
                                 [Buy |-> buy.number, Middle |-> middle.number,
                                  Sell |-> sell.number]),
                         "nil")

RECURSIVE ScanLinesSkipping(_, _, _, _)
\* The scanner loop with a lenient format check: a line that does not split
\* into four fields is skipped instead of ending the fetch.
ScanLinesSkipping(lines, i, date, rates) ==
    IF i > Len(lines) THEN Result(date, rates, "nil")
    ELSE LET line == lines[i]
         IN  IF Len(line) = 0 THEN ScanLinesSkipping(lines, i + 1, date, rates)
             ELSE IF Len(line) = 21
             THEN LET parsed == ParseDate(Slice(line, 11, 19))
                  IN  IF ~parsed.ok THEN Result(parsed.date, rates, "date")
                      ELSE ScanLinesSkipping(lines, i + 1, parsed.date, rates)
             ELSE IF Len(Fields(line)) # 4
             THEN ScanLinesSkipping(lines, i + 1, date, rates)
             ELSE LET step == DataLine(Fields(line), date, rates)
                  IN  IF step.err # "nil" THEN step
                      ELSE ScanLinesSkipping(lines, i + 1, step.Date, step.Rates)

RECURSIVE ScanLines(_, _, _, _)
\* for scanner.Scan() { ... } from line i on, with the exchange built so far.
ScanLines(lines, i, date, rates) ==
    IF i > Len(lines) THEN Result(date, rates, "nil")
    ELSE LET line == lines[i]
         IN  IF Len(line) = 0 THEN ScanLines(lines, i + 1, date, rates)
             ELSE IF Len(line) = 21
             THEN LET parsed == ParseDate(Slice(line, 11, 19))
                  IN  IF ~parsed.ok THEN Result(parsed.date, rates, "date")
                      ELSE ScanLines(lines, i + 1, parsed.date, rates)
             ELSE IF Len(Fields(line)) # 4 THEN Result(date, rates, "format")
             ELSE LET step == DataLine(Fields(line), date, rates)
                  IN  IF step.err # "nil" THEN step
                      ELSE ScanLines(lines, i + 1, step.Date, step.Rates)

\* fetch(source): one GET, then the response body line by line.  A response
\* is what the server at `source` answers: "down" is a transport error of
\* client.Get, otherwise a status and a body.
fetch(resp) ==
    IF resp.kind = "down"
    THEN Result(ZeroDate, NoRates, "fetching")
    ELSE ScanLines(resp.body, 1, ZeroDate, NoRates)

\* ------------------------------------------------------------------ JSON

RECURSIVE DigitsOf(_)
\* The decimal digits of a natural number.
DigitsOf(n) ==
    IF n < 10 THEN << Digits[n + 1] >>
    ELSE Append(DigitsOf(n \div 10), Digits[(n % 10) + 1])

RECURSIVE PadLeft(_, _)
\* s with zeros in front up to width w.
PadLeft(s, w) == IF Len(s) >= w THEN s ELSE PadLeft(<<"0">> \o s, w)

\* The text of the count n of millionths: integer part, point, six digits.
FixedSix(negative, n) ==
    (IF negative THEN <<"-">> ELSE <<>>)
        \o DigitsOf(n \div Pow10(6)) \o <<".">> \o PadLeft(DigitsOf(n % Pow10(6)), 6)

\* fmt.Sprintf("%.6f", x) for a *big.Float x: the texts it can give.  An
\* infinity prints as +Inf or -Inf.  A finite value is rounded to a whole
\* number of millionths; when the quotient lies half-way between two of them
\* the tie goes to the even one if the big.Float holds the quotient itself,
\* and to the side its 64-bit rounding fell on (either one) if it does not.
Sprintf6(number) ==
    IF number.inf
    THEN {IF number.num < 0 THEN <<"-", "I", "n", "f">> ELSE <<"+", "I", "n", "f">>}
    ELSE LET negative == number.num < 0
             mag      == IF negative THEN 0 - number.num ELSE number.num
             scaled   == mag * Pow10(6)
             floor    == scaled \div number.den
             twice    == 2 * (scaled % number.den)
         IN  IF twice < number.den THEN {FixedSix(negative, floor)}
             ELSE IF twice > number.den THEN {FixedSix(negative, floor + 1)}
             ELSE IF Exact(number)
             THEN {FixedSix(negative, IF floor % 2 = 0 THEN floor ELSE floor + 1)}
             ELSE {FixedSix(negative, floor), FixedSix(negative, floor + 1)}

\* Rate.MarshalJSON: the three rates as strings of fixed precision.
MarshalJSON(rate) ==
    {[Buy |-> b, Middle |-> m, Sell |-> l] :
        b \in Sprintf6(rate.Buy), m \in Sprintf6(rate.Middle), l \in Sprintf6(rate.Sell)}

\* time.Time.MarshalJSON: RFC 3339, the time of day being midnight UTC.
MarshalDate(date) ==
    PadLeft(DigitsOf(date.year), 4) \o <<"-">> \o PadLeft(DigitsOf(date.month), 2)
        \o <<"-">> \o PadLeft(DigitsOf(date.day), 2)
        \o <<"T", "0", "0", ":", "0", "0", ":", "0", "0", "Z">>

\* json.Marshal(e) for an Exchange: the documents it can write.
Marshal(exch) ==
    {[Date |-> MarshalDate(exch.Date), Rates |-> rates] :
        rates \in {f \in [DOMAIN exch.Rates ->
                              UNION {MarshalJSON(exch.Rates[c]) : c \in DOMAIN exch.Rates}] :
                       \A c \in DOMAIN exch.Rates : f[c] \in MarshalJSON(exch.Rates[c])}}

\* (*big.Float).UnmarshalText: Parse of the text, which also reads Inf.
UnmarshalText(text) ==
    IF text \in {<<"+", "I", "n", "f">>, <<"I", "n", "f">>}
    THEN [ok |-> TRUE, number |-> [inf |-> TRUE, num |-> 1, den |-> 1]]
    ELSE IF text = <<"-", "I", "n", "f">>
    THEN [ok |-> TRUE, number |-> [inf |-> TRUE, num |-> 0 - 1, den |-> 1]]
    ELSE ParseFloat(text)

\* time.Time.UnmarshalJSON on a text MarshalDate wrote.
UnmarshalDate(text) ==
    IF Len(text) = 20 /\ AllDigits(SubSeq(text, 1, 4)) /\ AllDigits(SubSeq(text, 6, 7))
                      /\ AllDigits(SubSeq(text, 9, 10))
    THEN [ok |-> TRUE,
          date |-> [year  |-> DigitsValue(SubSeq(text, 1, 4), 0),
                    month |-> DigitsValue(SubSeq(text, 6, 7), 0),
                    day   |-> DigitsValue(SubSeq(text, 9, 10), 0)]]
    ELSE [ok |-> FALSE, date |-> ZeroDate]

\* json.Unmarshal(body, &recived) into an Exchange.
Unmarshal(doc) ==
    LET date  == UnmarshalDate(doc.Date)
        field(c, k) == UnmarshalText(doc.Rates[c][k])
    IN  IF /\ date.ok
           /\ \A c \in DOMAIN doc.Rates : \A k \in {"Buy", "Middle", "Sell"} : field(c, k).ok
        THEN Result(date.date,
                    [c \in DOMAIN doc.Rates |->
                        [Buy |-> field(c, "Buy").number, Middle |-> field(c, "Middle").number,
                         Sell |-> field(c, "Sell").number]],
                    "nil")
        ELSE Result(ZeroDate, NoRates, "json")

\* ------------------------------------------------------------------ remote content

HeaderLine ==
    <<"0", "5", "9", "2", "4", "0", "3", "2", "0", "1", "7", "2", "5", "0", "3", "2", "0", "1", "7", "1", "3">>

HeaderLineNew ==
    <<"0", "6", "0", "2", "5", "0", "3", "2", "0", "1", "7", "2", "6", "0", "3", "2", "0", "1", "7", "1", "3">>

UsdLine ==
    <<"8", "4", "0", "U", "S", "D", "0", "0", "1", " ", " ", "6", ",", "8", " ", " ", "6", ",", "9", " ", " ", "7", ",", "0">>

UsdLineNew ==
    <<"8", "4", "0", "U", "S", "D", "0", "0", "1", " ", " ", "1", ",", "8", " ", " ", "2", ",", "8", " ", " ", "3", ",", "8">>

JpyLine ==
    <<"3", "9", "2", "J", "P", "Y", "1", "0", "0", " ", " ", "6", ",", "1", " ", " ", "6", ",", "2", " ", " ", "6", ",", "3">>

ShortLine ==
    <<"8", "4", "0", "U", "S", "D", "0", "0", "1", " ", " ", "6", ",", "8", " ", " ", "6", ",", "9">>

Served(body) == [kind |-> "ok", status |-> 200, body |-> body]

Down == [kind |-> "down", status |-> 0, body |-> <<>>]

\* What the remote server can be serving: two valid payloads with different
\* rates, a payload with a malformed line, and an unreachable server.
Contents ==
    << Served(<< <<>>, HeaderLine, UsdLine >>),
       Served(<< <<>>, HeaderLineNew, UsdLineNew, JpyLine >>),
       Served(<< HeaderLine, UsdLine, ShortLine >>),
       Down >>

ContentIds == 1..Len(Contents)

\* fetch's result for each of the contents.
Fetched == [i \in ContentIds |-> fetch(Contents[i])]

\* ------------------------------------------------------------------ state

VARIABLES
    remoteContent,  \* id (in Contents) of what the server at hnb.remote answers
    changes,        \* how many times remoteContent has been replaced so far
    startup,        \* the content served when the HNB value was constructed
    refreshTicker,  \* "running" or "stopped"
    tickerC,        \* ticks waiting in refreshTicker.C (its buffer holds one)
    sender,         \* a goroutine sending on an unbuffered refresh channel
    updaterPc,      \* the goroutine started by `go hnb.updater()`
    closeCalled,    \* Close() has been called and has returned
    pc,             \* per reader: where its LatestExchange call stands
    got,            \* per reader: what its last completed call returned
    gotVer,         \* per reader: value of `changes` when that response was served
    call,           \* per reader: what was true when its latest call began
    source,         \* what the server at `source` answers to one fetch / one request
    stage,          \* how far that one fetch or request has got
    exchange,       \* what fetch(source) returned
    encoded,        \* the JSON document ServeHTTP wrote for it
    decoded,        \* the Exchange json.Unmarshal read back from that document
    response        \* what conversionHandler answered

vars == << remoteContent, changes, startup, refreshTicker, tickerC, sender, updaterPc,
           closeCalled, pc, got, gotVer, call,
           source, stage, exchange, encoded, decoded, response >>

env == << remoteContent, changes, startup >>
hnbFields == << refreshTicker, tickerC >>
readers == << pc, got, gotVer, call >>
manager == << env, hnbFields, sender, updaterPc, closeCalled, readers >>
parser == << source, stage, exchange, encoded, decoded, response >>

\* No call has completed yet.
NoResult == Result(ZeroDate, NoRates, "none")

\* The Exchange part of a result.
ExchangeOf(res) == [Date |-> res.Date, Rates |-> res.Rates]

\* The reader is in no call.
NoCall == [closed |-> FALSE, floor |-> 0]

\* A tick or a refresh signal has been offered on a refresh channel.
Signalled == tickerC > 0 \/ sender # "idle"

\* The highest content version among the Exchanges that calls have returned.
MaxReturned ==
    LET vs == {gotVer[q] : q \in {p \in Readers : got[p].err = "nil"}}
    IN  IF vs = {} THEN 0 ELSE CHOOSE v \in vs : \A w \in vs : w <= v

\* New(): the ticker runs and the updater goroutine is started.  refresh is
\* the ticker's channel; a caller that builds the struct itself (as the
\* package's test does) passes an unbuffered channel it sends on.  Both kinds
\* of signal are modelled: Tick and Offer.
New ==
    /\ refreshTicker = "running"
    /\ tickerC = 0
    /\ updaterPc = "spawned"

\* The first of the contents that is a valid payload.
FirstValid ==
    CHOOSE i \in ContentIds :
        /\ Fetched[i].err = "nil"
        /\ \A j \in ContentIds : j < i => Fetched[j].err # "nil"

\* What the server can be answering while New() runs: its first valid
\* payload, or nothing at all (the server is unreachable).
StartIds == {FirstValid} \cup {i \in ContentIds : Contents[i] = Down}

\* No JSON document has been written.
NoDocument == [Date |-> <<>>, Rates |-> NoRates]

\* The values of conversionRequest.Rate that the handler knows.
RateNames == {"buy", "middle", "sell"}

\* A request body that json cannot decode into a conversionRequest.
Undecodable == [decodes |-> FALSE, Value |-> Number(0, 1), Currency |-> <<>>, Rate |-> ""]

\* The requests a client sends: the amount 10, a listed and an unlisted
\* currency, the three rate names and an unknown one.
Requests ==
    {Undecodable} \cup
    {[decodes |-> TRUE, Value |-> Number(v, 1), Currency |-> c, Rate |-> k] :
        v \in {10}, c \in {<<"U", "S", "D">>, <<"W", "A", "T">>},
        k \in RateNames \cup {"not-valid"}}

\* http.Error(w, ..., status), or the 200 with the result.
Answer(req, status, result) == [request |-> req, status |-> status, result |-> result]

\* The goroutine serving the request panicked: nothing is answered.
Fault(req) == [request |-> req, status |-> 0, result |-> Number(0, 1)]

\* conversionHandler has answered nothing.
NoResponse == Answer(Undecodable, 0, Number(0, 1))

\* switch reqData.Rate
Selected(rates, name) ==
    CASE name = "buy"    -> rates.Buy
      [] name = "middle" -> rates.Middle
      [] name = "sell"   -> rates.Sell

\* result.Mul(result, multipler) for finite operands (rounded by Mul and by
\* Float64() to float64; the product is kept as a quotient).
Mul(x, y) == Number(x.num * y.num, x.den * y.den)

\* The handler of conversionHandler on a decoded or undecodable request,
\* `latest` being what exchanger.LatestExchange() gives when it is called.
\* An infinite multipler makes Mul panic for the amount 0 (ErrNaN) and
\* otherwise gives +Inf, which json.Marshal refuses to encode.
conversionHandler(latest, req) ==
    IF ~req.decodes THEN Answer(req, 400, Number(0, 1))
    ELSE IF latest.err = "panic" THEN Fault(req)
    ELSE IF latest.err # "nil" THEN Answer(req, 500, Number(0, 1))
    ELSE IF req.Currency \notin DOMAIN latest.Rates THEN Answer(req, 400, Number(0, 1))
    ELSE IF req.Rate \notin RateNames THEN Answer(req, 400, Number(0, 1))
    ELSE LET multipler == Selected(latest.Rates[req.Currency], req.Rate)
         IN  IF multipler.inf
             THEN IF req.Value.num = 0 THEN Fault(req)
                  ELSE Answer(req, 500, Number(0, 1))
             ELSE Answer(req, 200, Mul(req.Value, multipler))

\* No fetch is run on its own and no handler is serving a request.
NoFetch ==
    /\ source = Down
    /\ stage = "idle"
    /\ exchange = NoResult
    /\ encoded = NoDocument
    /\ decoded = NoResult
    /\ response = NoResponse

\* The HNB value right after New(), the server answering one of `ids`.
Constructed(ids) ==
    /\ New
    /\ remoteContent \in ids
    /\ startup = remoteContent
    /\ changes = 0
    /\ sender = "idle"
    /\ closeCalled = FALSE
    /\ pc = [r \in Readers |-> "idle"]
    /\ got = [r \in Readers |-> NoResult]
    /\ gotVer = [r \in Readers |-> 0]
    /\ call = [r \in Readers |-> NoCall]

Init == Constructed(StartIds) /\ NoFetch

\* ------------------------------------------------------------------ environment

\* The remote server starts answering something else.
SetRemote(i) ==
    /\ changes < MaxChanges
    /\ i # remoteContent
    /\ remoteContent' = i
    /\ changes' = changes + 1
    /\ UNCHANGED << startup, hnbFields, sender, updaterPc, closeCalled, readers, parser >>

\* The ticker fires: a tick is put in its channel unless one is waiting there.
Tick ==
    /\ refreshTicker = "running"
    /\ tickerC' = 1
    /\ UNCHANGED << env, refreshTicker, sender, updaterPc, closeCalled, readers, parser >>

\* A goroutine starts `refresh <- time.Now()` on an unbuffered channel.
Offer ==
    /\ sender = "idle"
    /\ sender' = "offering"
    /\ UNCHANGED << env, hnbFields, updaterPc, closeCalled, readers, parser >>

\* The sender's one-second timer fires.  By then the updater goroutine has
\* run; the send is still pending because nothing receives from refresh.
Timeout ==
    /\ sender = "offering"
    /\ updaterPc = "returned"
    /\ sender' = "timedout"
    /\ UNCHANGED << env, hnbFields, updaterPc, closeCalled, readers, parser >>

\* ------------------------------------------------------------------ HNB

\* updater(): the body is empty, so the goroutine returns as soon as it runs.
\* It receives from no channel and calls fetch nowhere.
updater ==
    /\ updaterPc = "spawned"
    /\ updaterPc' = "returned"
    /\ UNCHANGED << env, hnbFields, sender, closeCalled, readers, parser >>

\* Close(): the body is empty; no field of the HNB value changes (the ticker
\* is not stopped, exit is not closed).  Only the fact of the call is recorded.
Close ==
    /\ ~closeCalled
    /\ closeCalled' = TRUE
    /\ UNCHANGED << env, hnbFields, sender, updaterPc, readers, parser >>

\* LatestExchange() is entered: it calls fetch(hnb.remote), which sends the
\* GET and waits for the server.
LatestExchangeCall(r) ==
    /\ pc[r] = "idle"
    /\ pc' = [pc EXCEPT ![r] = "get"]
    /\ call' = [call EXCEPT ![r] = [closed |-> closeCalled, floor |-> MaxReturned]]
    /\ UNCHANGED << env, hnbFields, sender, updaterPc, closeCalled, got, gotVer, parser >>

\* Returned with a reader-side cache: once a call has succeeded, the reader
\* is served its earlier Exchange again instead of a new fetch.
ReturnedFromCache(r) ==
    IF got[r].err = "nil"
    THEN [res |-> got[r], ver |-> gotVer[r]]
    ELSE [res |-> Fetched[remoteContent], ver |-> changes]

\* Returned with an in-place refresh that overwrites the rates of the
\* Exchange the reader already holds and leaves its date as it was.
ReturnedInPlace(r) ==
    IF got[r].err = "nil" /\ Fetched[remoteContent].err = "nil"
    THEN [res |-> Result(got[r].Date, Fetched[remoteContent].Rates, "nil"),
          ver |-> changes]
    ELSE [res |-> Fetched[remoteContent], ver |-> changes]

\* What reader r's call returns and the version of the content it was made
\* from: fetch's result on what the server answers now.
Returned(r) == [res |-> Fetched[remoteContent], ver |-> changes]

\* LatestExchangeReturn through the hand-off channel: the call can only
\* return while the updater goroutine is there to send on hnb.latest.
LatestExchangeReturnHandOff(r) ==
    /\ pc[r] = "get"
    /\ updaterPc # "returned"
    /\ pc' = [pc EXCEPT ![r] = "idle"]
    /\ got' = [got EXCEPT ![r] = Returned(r).res]
    /\ gotVer' = [gotVer EXCEPT ![r] = Returned(r).ver]
    /\ call' = [call EXCEPT ![r] = NoCall]
    /\ UNCHANGED << env, hnbFields, sender, updaterPc, closeCalled, parser >>

\* LatestExchangeReturn with one map shared by all callers: the rates just
\* fetched are written into the Exchange every reader already holds.
LatestExchangeReturnShared(r) ==
    /\ pc[r] = "get"
    /\ pc' = [pc EXCEPT ![r] = "idle"]
    /\ got' = [q \in Readers |->
                  IF q = r THEN Returned(r).res
                  ELSE IF got[q].err = "nil" /\ Returned(r).res.err = "nil"
                       THEN Result(got[q].Date, Returned(r).res.Rates, "nil")
                       ELSE got[q]]
    /\ gotVer' = [gotVer EXCEPT ![r] = Returned(r).ver]
    /\ call' = [call EXCEPT ![r] = NoCall]
    /\ UNCHANGED << env, hnbFields, sender, updaterPc, closeCalled, parser >>

\* The server answers (or the request fails), fetch scans the response and
\* LatestExchange returns fetch's result.  Scanning touches nothing shared,
\* so the answer and the return are one step.
LatestExchangeReturn(r) ==
    /\ pc[r] = "get"
    /\ pc' = [pc EXCEPT ![r] = "idle"]
    /\ got' = [got EXCEPT ![r] = Returned(r).res]
    /\ gotVer' = [gotVer EXCEPT ![r] = Returned(r).ver]
    /\ call' = [call EXCEPT ![r] = NoCall]
    /\ UNCHANGED << env, hnbFields, sender, updaterPc, closeCalled, parser >>

\* ------------------------------------------------------------------ specification

Next ==
    \/ \E i \in ContentIds : SetRemote(i)
    \/ Tick
    \/ Offer
    \/ Timeout
    \/ updater
    \/ Close
    \/ \E r \in Readers : LatestExchangeCall(r)
    \/ \E r \in Readers : LatestExchangeReturn(r)

Spec == Init /\ [][Next]_vars

\* The http.Client of fetch has a Timeout of ten seconds, which bounds the
\* request and the reading of the body: a call that has begun comes back.
LiveSpec == Spec /\ \A r \in Readers : WF_vars(LatestExchangeReturn(r))

\* The step in which reader r's LatestExchange call returns.
Returns(r) == pc[r] = "get" /\ pc'[r] = "idle"

\* Some call has already returned an Exchange without error.
SomeGood == \E q \in Readers : got[q].err = "nil"

\* ------------------------------------------------------------------ one fetch

\* How many lines a payload has at most.
MaxLines == 3

\* A 21-character line whose characters [11,19) are no date (day 32).
BadDateLine ==
    <<"0", "5", "9", "2", "4", "0", "3", "2", "0", "1", "7", "3", "2", "0", "3", "2", "0", "1", "7", "1", "3">>

\* Four fields, the first one too short to hold a label at [3,6).
NoLabelLine ==
    <<"U", "S", "D", " ", " ", "6", ",", "8", " ", " ", "6", ",", "9", " ", " ", "7", ",", "0">>

\* Four fields, the middle rate is written with a decimal point.
BadRateLine ==
    <<"8", "4", "0", "U", "S", "D", "0", "0", "1", " ", " ", "6", ",", "8", " ", " ", "6", ".", "9", " ", " ", "7", ",", "0">>

\* Four fields, unit count 000.
ZeroUnitsLine ==
    <<"8", "4", "0", "U", "S", "D", "0", "0", "0", " ", " ", "6", ",", "8", " ", " ", "6", ",", "9", " ", " ", "7", ",", "0">>

\* A unit-1 line whose rates are binary fractions.
EurLine ==
    <<"9", "7", "8", "E", "U", "R", "0", "0", "1", " ", " ", "7", ",", "5", " ", " ", "7", ",", "2", "5", " ", " ", "8", ",", "0">>

\* The lines a payload is made of.
Lines ==
    { <<>>, HeaderLine, UsdLine, JpyLine, EurLine, ShortLine, BadDateLine,
      NoLabelLine, BadRateLine, ZeroUnitsLine }

Payloads == UNION {[1..n -> Lines] : n \in 0..MaxLines}

\* resp.StatusCode of an answered request.
Statuses == {200, 404}

\* What the server at `source` can answer to the one GET of a fetch.
Sources ==
    {Down} \cup {[kind |-> "ok", status |-> st, body |-> b] : st \in Statuses, b \in Payloads}

FetchInit ==
    /\ Constructed({FirstValid})
    /\ source \in Sources
    /\ stage = "ready"
    /\ exchange = NoResult
    /\ encoded = NoDocument
    /\ decoded = NoResult
    /\ response = NoResponse

\* fetch(source) is called and comes back (or the goroutine panics in it).
FetchCall ==
    /\ stage = "ready"
    /\ exchange' = fetch(source)
    /\ stage' = "fetched"
    /\ UNCHANGED << manager, source, encoded, decoded, response >>

\* Exchange.ServeHTTP on the snapshot fetch returned: the JSON document is
\* written to the response.
ServeHTTP ==
    /\ stage = "fetched"
    /\ exchange.err = "nil"
    /\ encoded' \in Marshal(exchange)
    /\ stage' = "served"
    /\ UNCHANGED << manager, source, exchange, decoded, response >>

\* The client reads the document back with json.Unmarshal.
ReadBack ==
    /\ stage = "served"
    /\ decoded' = Unmarshal(encoded)
    /\ stage' = "read"
    /\ UNCHANGED << manager, source, exchange, encoded, response >>

\* One request to the handler conversionHandler(hnb) returns: it decodes the
\* request, calls LatestExchange(), which is fetch(hnb.remote), and answers.
Convert ==
    /\ stage = "ready"
    /\ LET latest == fetch(source)
       IN  \E req \in Requests :
              /\ exchange' = IF req.decodes THEN latest ELSE exchange
              /\ response' = conversionHandler(latest, req)
              /\ stage' = IF response'.status = 0 THEN "panicked" ELSE "answered"
    /\ UNCHANGED << manager, source, encoded, decoded >>

FetchNext ==
    \/ FetchCall
    \/ Convert
    \/ ServeHTTP
    \/ ReadBack

FetchSpec == FetchInit /\ [][FetchNext]_vars

\* ------------------------------------------------------------------ claims

\* C1: every LatestExchange() call that begins after Close() has returned
\* ends with a non-nil error; no such call returns a snapshot as success.
C1_ReadAfterCloseFails ==
    [][\A r \in Readers : (Returns(r) /\ call[r].closed) => got'[r].err # "nil"]_vars

\* C2: when the fetch of the remote fails (transport error or malformed
\* payload) while the HNB is not closed and a snapshot has been served before,
\* LatestExchange() still succeeds and returns the values served before.
C2_StaleOnFailure ==
    [][\A r \in Readers :
          (Returns(r) /\ ~closeCalled /\ SomeGood
                      /\ Fetched[remoteContent].err # "nil")
          => /\ got'[r].err = "nil"
             /\ \E q \in Readers : /\ got[q].err = "nil"
                                   /\ ExchangeOf(got'[r]) = ExchangeOf(got[q])]_vars

\* C4: as long as no tick and no refresh signal has occurred, LatestExchange()
\* keeps returning the same snapshot values, also when the remote content has
\* changed in between: a successful read agrees with every earlier one.
C4_NoRefreshNoChange ==
    [][\A r, q \in Readers :
          (Returns(r) /\ ~Signalled /\ ~closeCalled
                      /\ got'[r].err = "nil" /\ got[q].err = "nil")
          => ExchangeOf(got'[r]) = ExchangeOf(got[q])]_vars

\* C5: when the remote serves a valid payload at startup, the first
\* LatestExchange() to complete, before any tick, refresh signal or Close,
\* returns without error the rates of the payload served at startup.
C5_FirstReadIsStartup ==
    [][\A r \in Readers :
          (Returns(r) /\ ~Signalled /\ ~closeCalled
                      /\ Fetched[startup].err = "nil"
                      /\ \A q \in Readers : got[q].err = "none")
          => /\ got'[r].err = "nil"
             /\ ExchangeOf(got'[r]) = ExchangeOf(Fetched[startup])]_vars

\* C6: a refresh signal offered on the refresh channel is accepted by the
\* background task; the sender never gives up waiting for it to be received.
C6_SignalAccepted == sender # "timedout"

C9_ReadersNeverWait == \A r \in Readers : pc[r] # "get"

\* C10: once Close() has returned the ticker is stopped.
C10_CloseStopsTicker == closeCalled => refreshTicker = "stopped"

\* C11: when the fetch at construction time cannot succeed (the server is
\* unreachable while New() runs), the updater goroutine is not stopped: as
\* long as Close() has not been called it is still there to refresh on the
\* next tick or signal.
C11_UpdaterSurvivesFailedStart ==
    (Fetched[startup].err # "nil" /\ ~closeCalled) => updaterPc # "returned"

\* A non-blank line that is not a 21-character header and does not split
\* into exactly four whitespace-delimited fields.
Malformed(line) == Len(line) \notin {0, 21} /\ Len(Fields(line)) # 4

\* The lines of the pool that a payload may hold without fetch failing.
ValidLines == { <<>>, HeaderLine, UsdLine, JpyLine, EurLine }

\* A payload with at least one malformed line among otherwise valid lines.
OnlyMalformed(body) ==
    /\ \E i \in 1..Len(body) : Malformed(body[i])
    /\ \A i \in 1..Len(body) : Malformed(body[i]) \/ body[i] \in ValidLines

\* C12: for every answered payload that holds a malformed line among
\* otherwise valid lines, wherever it stands, fetch returns the format error.
C12_MalformedLineRejected ==
    (stage = "fetched" /\ source.kind = "ok" /\ source.status = 200
                       /\ OnlyMalformed(source.body))
    => exchange.err = "format"

\* C12 witness: fetch has failed with the format error on a payload whose
\* malformed line stands last, after a header and a data line.
C12_Witness ==
    /\ stage = "fetched" /\ source.kind = "ok" /\ source.status = 200
    /\ Len(source.body) = MaxLines
    /\ Malformed(source.body[MaxLines])
    /\ source.body[1] = HeaderLine
    /\ \A i \in 2..(MaxLines - 1) : source.body[i] = UsdLine
    /\ exchange.err = "format"

\* C13: when fetch returns an error, the Exchange value it returns with it
\* holds no date and no rate parsed from the lines before the failing one.
C13_NothingPartial ==
    (stage = "fetched" /\ exchange.err \notin {"nil", "panic"})
    => (exchange.Date = ZeroDate /\ exchange.Rates = NoRates)

\* What the data lines of the pool quote, read off their text: the label,
\* the unit count u and the three values v as fractions.
Quoted(line) ==
    CASE line = UsdLine -> [label |-> <<"U", "S", "D">>, units |-> 1,
                            Buy |-> <<68, 10>>, Middle |-> <<69, 10>>, Sell |-> <<70, 10>>]
      [] line = JpyLine -> [label |-> <<"J", "P", "Y">>, units |-> 100,
                            Buy |-> <<61, 10>>, Middle |-> <<62, 10>>, Sell |-> <<63, 10>>]
      [] line = EurLine -> [label |-> <<"E", "U", "R">>, units |-> 1,
                            Buy |-> <<75, 10>>, Middle |-> <<725, 100>>, Sell |-> <<80, 10>>]

QuotedLines == {UsdLine, JpyLine, EurLine}

\* Line i of the body is a quoted data line and no later line of the body
\* carries the same label (a later one would replace the map entry).
Decides(body, i) ==
    /\ body[i] \in QuotedLines
    /\ \A j \in (i + 1)..Len(body) :
           Len(body[j]) >= 6 => Slice(body[j], 3, 6) # Quoted(body[i]).label

\* number stands for v / u.
IsQuotient(number, v, u) ==
    ~number.inf /\ number.num * v[2] * u = v[1] * number.den

\* v / u is a binary fraction.
BinaryFraction(v, u) == IsPowerOfTwo((v[2] * u) \div GCD(v[1], v[2] * u))

\* The lines of a successfully fetched payload that decide a map entry.
Deciding ==
    IF stage = "fetched" /\ exchange.err = "nil"
    THEN {i \in 1..Len(source.body) : Decides(source.body, i)}
    ELSE {}

\* Every deciding line has its entry in the map.
AllStored ==
    \A i \in Deciding : Quoted(source.body[i]).label \in DOMAIN exchange.Rates

\* For every deciding line and each of buy, middle and sell: the number
\* stored, the value v quoted and the unit count u.
StoredQuotes ==
    UNION {LET q    == Quoted(source.body[i])
               rate == exchange.Rates[q.label]
           IN  {<<rate.Buy, q.Buy, q.units>>, <<rate.Middle, q.Middle, q.units>>,
                <<rate.Sell, q.Sell, q.units>>} : i \in Deciding}

HoldsQuotient(number, v, u) == IsQuotient(number, v, u) /\ Exact(number)

RoundsQuotient(number, v, u) ==
    IsQuotient(number, v, u) /\ (Exact(number) <=> BinaryFraction(v, u))

C15_Non200IsError ==
    (stage = "fetched" /\ source.kind = "ok" /\ source.status # 200)
    => exchange.err = "fetching"

\* C19: every snapshot fetch returns without error has its date from a header
\* line of the payload: a payload without a 21-character line never yields a
\* successful snapshot (with the default date).
C19_DateFromHeader ==
    (stage = "fetched" /\ exchange.err = "nil")
    => \E i \in 1..Len(source.body) :
          /\ Len(source.body[i]) = 21
          /\ ParseDate(Slice(source.body[i], 11, 19)) = [ok |-> TRUE, date |-> exchange.Date]

\* C20: fetch ends by returning a snapshot or an error value, never by a
\* run-time fault.
C20_NoRuntimeFault == stage = "fetched" => exchange.err # "panic"

\* A decimal string with exactly six fractional digits.
SixDecimals(text) ==
    LET body == IF text # <<>> /\ Head(text) = "-" THEN Tail(text) ELSE text
        p    == PointAt(body)
    IN  /\ p >= 2
        /\ Len(body) = p + 6
        /\ \A i \in 1..Len(body) : i # p => IsDigit(body[i])

RateKinds == {"Buy", "Middle", "Sell"}

\* Every line of the payload is a valid one and the answer was a 200.
ValidPayload == source.status = 200 /\ \A i \in 1..Len(source.body) : source.body[i] \in ValidLines

\* The document read back agrees with the snapshot it was written from: same
\* date, same currencies, every rate the same when printed with six decimals.
ReadsBackSame ==
    /\ decoded.err = "nil"
    /\ decoded.Date = exchange.Date
    /\ DOMAIN decoded.Rates = DOMAIN exchange.Rates
    /\ \A c \in DOMAIN exchange.Rates : \A k \in RateKinds :
           Sprintf6(decoded.Rates[c][k]) = Sprintf6(exchange.Rates[c][k])

\* C16: every rate of a served snapshot is written as a decimal string with
\* exactly six fractional digits, and for a valid payload the document read
\* back gives the same date, the same currencies and, at six decimals, the
\* same buy, middle and sell rates.
C16_SixDecimalsRoundTrip ==
    /\ stage \in {"served", "read"}
       => \A c \in DOMAIN encoded.Rates : \A k \in RateKinds : SixDecimals(encoded.Rates[c][k])
    /\ (stage = "read" /\ ValidPayload) => ReadsBackSame

\* The handler has dealt with a request that decodes.
Handled == stage \in {"answered", "panicked"} /\ response.request.decodes

\* The request names a currency of the snapshot and one of the rate types.
Convertible ==
    /\ exchange.err = "nil"
    /\ response.request.Currency \in DOMAIN exchange.Rates
    /\ response.request.Rate \in RateNames

\* C17: conversionHandler answers 500 when LatestExchange() fails, 400 when
\* the currency is not in the snapshot or the rate type is none of buy,
\* middle, sell, and otherwise 200 with result = value times the selected
\* rate of that currency.
C17_ConversionAnswers ==
    Handled
    => /\ stage = "answered"
       /\ exchange.err # "nil" => response.status = 500
       /\ (exchange.err = "nil" /\ ~Convertible) => response.status = 400
       /\ Convertible
          => /\ response.status = 200
             /\ response.result =
                    Mul(response.request.Value,
                        Selected(exchange.Rates[response.request.Currency],
                                 response.request.Rate))

\* C18: the snapshot a LatestExchange() call has returned to a reader is not
\* changed afterwards: every step that is not a return of that reader's own
\* next call (another reader's call or return, a tick, a refresh signal, a
\* change of the remote content, the updater, Close) leaves its date and
\* every rate as they were.
C18_SnapshotImmutable ==
    [][\A r \in Readers : ~Returns(r) => got'[r] = got[r]]_vars

\* C18 witness: a reader still holds the snapshot of the startup content
\* after the content was replaced, another reader was returned the newer
\* snapshot, a tick occurred and Close() was called.
C18_Witness ==
    \E r, q \in Readers :
        /\ got[q].err = "nil" /\ gotVer[q] = 0
        /\ ExchangeOf(got[q]) = ExchangeOf(Fetched[startup])
        /\ got[r].err = "nil" /\ gotVer[r] > 0
        /\ got[r].Rates # got[q].Rates
        /\ tickerC > 0 /\ closeCalled

\* Line i of the body is a data line as fetch reads it (four fields, not 21
\* characters, a first field that reaches [6:]) with a unit count that is a
\* number but not greater than 0.
DividesByNonPositive(body, i) ==
    /\ Len(body[i]) \notin {0, 21}
    /\ Len(Fields(body[i])) = 4
    /\ Len(Fields(body[i])[1]) >= 6
    /\ LET units == Atoi(Slice(Fields(body[i])[1], 6, Len(Fields(body[i])[1])))
       IN  units.ok /\ units.val <= 0

\* C21: a data line whose unit count is zero or negative makes the fetch
\* fail: no snapshot returned without error comes from a payload that holds
\* such a line.
C21_UnitsPositive ==
    (stage = "fetched" /\ exchange.err = "nil")
    => \A i \in 1..Len(source.body) : ~DividesByNonPositive(source.body, i)

====
